---- MODULE Spec2Model ----
(***************************************************************************)
(* The k-fold training programs classifier_kfolds.py and                   *)
(* multilingual_classifier.py: the main process partitions the examples     *)
(* into folds, primes a queue with one GPU id per device, runs main_driver  *)
(* once per fold on a pool of NUM_GPUS worker processes (starmap), and      *)
(* then aggregates the per-fold scores and out-of-fold predictions.         *)
(*                                                                         *)
(* The state starts after the CSV data has been loaded (the loaders and     *)
(* the tokenizer are external collaborators).  Numpy arrays are functions   *)
(* over 0..n-1; index arrays are sequences.                                 *)
(*                                                                         *)
(* multiprocessing.Pool is library code.  It is modelled by its behaviour   *)
(* in CPython >= 3.6: tasks are handed to free workers in submission        *)
(* order, an exception in a task is caught by the worker and reported as    *)
(* that task's result, and starmap returns (or re-raises the first          *)
(* exception) only once every task has reported.  For NUM_FOLDS <=          *)
(* 4 * NUM_GPUS, which holds for every configuration explored here,         *)
(* starmap's chunksize is 1, so one task is one fold.                       *)
(***************************************************************************)
EXTENDS Integers, Sequences, FiniteSets, TLC

\* The learning rates, in units of 1e-5.
LR_DECAY_START == 100
LR_FINETUNE == 1

\* preprocessor.SEED
SEED == 1337

\* Bounds of the explored configurations.
MaxFolds == 3
MaxGpus == 2
MaxEpochs == 2
MaxExamples == 3
\* Number of pseudo-labelled examples loaded from PSEUDO_TEXT_PATH.
NumPseudo == 1
\* BATCH_SIZE of the programs (24 and 64), scaled to the explored data sizes.
BATCH_SIZE == 2
MaxTrainLen == 5
MaxAccum == 2
MaxDraws == 3
MaxCalls == 3

VARIABLES
    program,               \* "kfolds" (classifier_kfolds.py) or "multilingual"
    NUM_FOLDS,             \* preprocessor.NUM_FOLDS
    NUM_GPUS,              \* module constant NUM_GPUS
    NUM_EPOCHS,            \* module constant NUM_EPOCHS
    numExamples,           \* len(all_strings)
    all_ids,               \* example index -> id
    all_val_flag,          \* example index -> validation-eligible flag
    shuffled,              \* the seeded permutation KFold(shuffle=True) draws
    auc_values,            \* the scores roc_auc_score can return on this data
    single_class,          \* folds whose validation labels hold one class only
    ACCUM_FOR,             \* batches per optimizer step
    USE_EMA,               \* whether an EMA shadow of the parameters is kept
    train_len,             \* len(train_indices) of the driver followed batch by batch
    shuffle_outcomes,      \* the orders shuffle(train_indices) can leave
    fold_id,               \* fold_id of the driver followed batch by batch
    SAVE_MODEL,            \* module constant SAVE_MODEL
    mainpc,                \* position of the main process
    fold_indices,          \* result of generate_train_kfolds_indices
    gpu_id_queue,          \* mp.Manager().Queue() of GPU ids
    results,               \* value returned by starmap
    mean_score,            \* per-epoch mean over folds
    oof_tables,            \* the out-of-fold tables written so far
    pc,                    \* fold -> position of its main_driver call
    use_gpu_id,            \* fold -> GPU id its driver got from the queue
    curr_epoch,            \* fold -> loop variable of the epoch loop
    epoch_eval_score,      \* fold -> list of AUCs
    epoch_val_id_to_pred,  \* fold -> list of id -> prediction dicts
    seen,                  \* fold -> examples its Training Loop has been given
    raised,                \* fold -> the exception its task reported, if any
    \* One driver's model and optimizer, followed batch by batch.
    tpc,                   \* "epoch", "batch", "evaluate", "tail", "finished", "raised"
                           \* ("idle": not followed)
    train_epoch,           \* curr_epoch of the epoch loop
    batch_idx_start,       \* train()'s loop variable
    iter,                  \* train()'s batch counter
    mode,                  \* model.training: "train" or "eval"
    grad,                  \* the batches whose gradients are in the parameters' .grad
    param_groups_lr,       \* g['lr'] of each group of opt.param_groups
    opt_steps,             \* the optimizer steps applied so far: the parameters
    ema_shadow,            \* the parameter versions passed to ema.register/update
    eval_out,              \* what the evaluate calls of the last epoch returned
    batch_log,             \* history: one record per training batch
    train_indices_shuffled, \* train_indices after shuffle() in the current train() call
    epoch_batches,         \* the batches the current train() call has built
    param_data,            \* "trained": param.data as the optimizer left it; "ema":
                           \* replaced by ema.get(name)
    epoch_aucs,            \* the epoch_auc of each epoch of the driver followed
    best_auc,              \* best_auc of multilingual_classifier.main_driver
    save_log,              \* history: the save_model calls
    \* Repeated calls of the Fold Partitioner in one process.
    random_state,          \* state of the process-wide generators (random, np.random)
    calls                  \* what the calls of generate_train_kfolds_indices returned

config == <<program, NUM_FOLDS, NUM_GPUS, NUM_EPOCHS, numExamples, all_ids,
            all_val_flag, shuffled, auc_values, single_class,
            ACCUM_FOR, USE_EMA, train_len, shuffle_outcomes, fold_id, SAVE_MODEL>>
mainvars == <<mainpc, fold_indices, results, mean_score, oof_tables>>
foldvars == <<pc, use_gpu_id, curr_epoch, epoch_eval_score, epoch_val_id_to_pred, seen,
              raised>>
trainvars == <<tpc, train_epoch, batch_idx_start, iter, mode, grad, param_groups_lr,
               opt_steps, ema_shadow, eval_out, batch_log, train_indices_shuffled,
               epoch_batches, param_data, epoch_aucs, best_auc, save_log>>
rngvars == <<random_state, calls>>
vars == <<config, mainvars, gpu_id_queue, foldvars, trainvars, rngvars>>

None == -1

Folds == 0 .. NUM_FOLDS - 1
Examples == 0 .. numExamples - 1

----------------------------------------------------------------------------
\* Helpers on sequences and sets.

Range(s) == {s[j] : j \in 1 .. Len(s)}

Min(a, b) == IF a <= b THEN a ELSE b

RECURSIVE SortedSeq(_)
\* The elements of a finite set of integers in ascending order.
SortedSeq(S) ==
    IF S = {} THEN <<>>
    ELSE LET m == CHOOSE x \in S : \A y \in S : x <= y
         IN <<m>> \o SortedSeq(S \ {m})

Shuffles(n) ==
    {p \in [1 .. n -> 0 .. n - 1] : \A a, b \in 1 .. n : a # b => p[a] # p[b]}

RECURSIVE SumSeq(_)
SumSeq(s) == IF s = <<>> THEN 0 ELSE Head(s) + SumSeq(Tail(s))

----------------------------------------------------------------------------
\* preprocessor.generate_train_kfolds_indices: sklearn's
\* KFold(n_splits=NUM_FOLDS, shuffle=True, random_state=SEED).split(range(n)).

\* KFold rejects n_splits <= 1 (constructor) and n_splits > n_samples (split).
KFoldRejectsOnlySmall(n, k) == k < 2
KFoldRejects(n, k) == k < 2 \/ k > n

\* fold_sizes = full(k, n // k); fold_sizes[:n % k] += 1
FoldSizeDropRemainder(n, k, i) == n \div k
FoldSize(n, k, i) == (n \div k) + (IF i < n % k THEN 1 ELSE 0)

RECURSIVE FoldStart(_, _, _)
\* current = 0; for fold_size in fold_sizes: ...; current = stop
FoldStart(n, k, i) ==
    IF i = 0 THEN 0 ELSE FoldStart(n, k, i - 1) + FoldSize(n, k, i - 1)

\* test_index of fold i: the slice indices[start:stop] of the shuffled indices.
TestSlice(perm, n, k, i) ==
    {perm[j] : j \in FoldStart(n, k, i) + 1 .. FoldStart(n, k, i) + FoldSize(n, k, i)}

\* train_index = indices[~test_mask], test_index = indices[test_mask]
TrainOf(perm, n, k, i) == SortedSeq((0 .. n - 1) \ TestSlice(perm, n, k, i))
ValOf(perm, n, k, i) == SortedSeq(TestSlice(perm, n, k, i))

generate_train_kfolds_indices(perm, n, k) ==
    [i \in 0 .. k - 1 |-> <<TrainOf(perm, n, k, i), ValOf(perm, n, k, i)>>]

----------------------------------------------------------------------------
\* main_driver's view of the data.

train_indices(f) == fold_indices[f][1]
val_indices(f) == fold_indices[f][2]

\* The examples handed to train(): rows of all_features at train_indices, and in
\* multilingual_classifier.py (USE_PSEUDO_LABELS = True) the pseudo-labelled rows
\* placed before them.
TrainExamples(f) ==
    {<<"all", i>> : i \in Range(train_indices(f))}
        \cup (IF program = "multilingual"
              THEN {<<"pseudo", j>> : j \in 0 .. NumPseudo - 1} ELSE {})

\* The validation rows: in classifier_kfolds.py trimmed to those flagged for
\* validation.
ValKeepAll(f) == val_indices(f)
ValRows(f) ==
    IF program = "kfolds"
    THEN SelectSeq(val_indices(f), LAMBDA i : all_val_flag[i])
    ELSE val_indices(f)

\* The model's output for example i after the fold's model was trained e + 1 epochs.
Forward(f, e, i) == <<f, e, i>>

EvalFirstBatchOnly(f, e, rows, start) ==
    [j \in 1 .. Min(BATCH_SIZE, Len(rows)) |-> Forward(f, e, rows[j])]
RECURSIVE EvalBatches(_, _, _, _)
\* evaluate(): for batch_idx_start in range(0, len(val_ids), BATCH_SIZE), the
\* batch predictions appended in order and then concatenated.
EvalBatches(f, e, rows, start) ==
    IF start >= Len(rows) THEN <<>>
    ELSE LET stop == Min(start + BATCH_SIZE, Len(rows))
         IN [j \in 1 .. stop - start |-> Forward(f, e, rows[start + j])]
                \o EvalBatches(f, e, rows, start + BATCH_SIZE)

\* np.concatenate of an empty list raises ValueError.
ConcatenateRaises(f) == Len(ValRows(f)) = 0

\* roc_auc_score(val_labels, val_preds) raises ValueError ("Only one class present
\* in y_true") when the labels hold one class only.  The labels themselves are
\* not modelled: which folds' validation labels are single-class is an input.
RocAucScoreRaises(f) == f \in single_class

EvaluateRaises(f) == ConcatenateRaises(f) \/ RocAucScoreRaises(f)

val_preds(f, e) == EvalBatches(f, e, ValRows(f), 0)

\* {val_id: val_pred for val_id, val_pred in zip(val_ids, val_preds)}: a later
\* pair replaces an earlier one with the same key.
DictFromZip(keys, values) ==
    LET n == Min(Len(keys), Len(values))
    IN [k \in {keys[j] : j \in 1 .. n} |->
           values[CHOOSE j \in 1 .. n :
                     keys[j] = k /\ \A h \in 1 .. n : keys[h] = k => h <= j]]

val_ids(f) == [j \in 1 .. Len(ValRows(f)) |-> all_ids[ValRows(f)[j]]]

EpochDict(f, e) == DictFromZip(val_ids(f), val_preds(f, e))

----------------------------------------------------------------------------
\* The worker pool and the token queue.

\* Positions of a main_driver call that occupies a pool worker.
Running == {"acquire", "init", "train", "eval", "release", "return"}
\* Positions between gpu_id_queue.get() and gpu_id_queue.put().
Holding == {"init", "train", "eval", "release"}

\* [gpu_id_queue.put(i) for i in range(NUM_GPUS)]
PrimedQueue(n) == [j \in 1 .. n |-> j - 1]

\* A pool of NUM_GPUS workers takes the tasks in submission order.
WorkerAlwaysFree == TRUE
WorkerFree == Cardinality({g \in Folds : pc[g] \in Running}) < NUM_GPUS
NextTask(f) == pc[f] = "pending" /\ \A g \in Folds : g < f => pc[g] # "pending"

\* starmap waits until every task has reported a result or an exception.
AnyTaskReported == \E f \in Folds : pc[f] \in {"done", "failed"}
AllTasksReported == \A f \in Folds : pc[f] \in {"done", "failed"}

\* The list starmap returns: the tasks' return values in submission order.
StarmapResultsReversed ==
    [f \in Folds |-> <<epoch_eval_score[NUM_FOLDS - 1 - f],
                       epoch_val_id_to_pred[NUM_FOLDS - 1 - f]>>]
StarmapResults == [f \in Folds |-> <<epoch_eval_score[f], epoch_val_id_to_pred[f]>>]

\* starmap re-raises in the main process the exception a task reported.
StarmapIgnoresFailure == FALSE
StarmapRaises == \E f \in Folds : pc[f] = "failed"

----------------------------------------------------------------------------
\* Aggregation in __main__.

\* np.mean(np.stack([x[0] for x in results]), axis=0), kept as <<sum, count>>.
MeanScore(res) ==
    [e \in 1 .. NUM_EPOCHS |->
        <<SumSeq([f \in 1 .. NUM_FOLDS |-> res[f - 1][1][e]]), NUM_FOLDS>>]

RECURSIVE DictUpdateAll(_, _, _)
\* oof_preds = {}; [oof_preds.update(x[1][curr_epoch]) for x in results]
DictUpdateAll(res, e, k) ==
    IF k = 0 THEN <<>>
    ELSE LET acc == DictUpdateAll(res, e, k - 1)
             d == res[k - 1][2][e]
         IN [x \in DOMAIN acc \cup DOMAIN d |-> IF x \in DOMAIN d THEN d[x] ELSE acc[x]]

OofDictSkipFirst(res, e) ==
    LET d == DictUpdateAll(res, e, NUM_FOLDS)
    IN [x \in DOMAIN d \ DOMAIN res[0][2][e] |-> d[x]]
OofDict(res, e) == DictUpdateAll(res, e, NUM_FOLDS)

\* DataFrame.from_dict(...).reset_index(), columns ['id', 'toxic'], sorted by id.
OofTable(res, e) ==
    LET d == OofDict(res, e)
        ids == SortedSeq(DOMAIN d)
    IN [j \in 1 .. Len(ids) |-> <<ids[j], d[ids[j]]>>]

----------------------------------------------------------------------------
\* Initial states.

TypicalIds(n) == [i \in 0 .. n - 1 |-> 10 + i]
ReversedIds(n) == [i \in 0 .. n - 1 |-> 10 + (n - 1 - i)]

\* No driver is followed batch by batch.
TrainerIdle ==
    /\ ACCUM_FOR = 1 /\ USE_EMA = FALSE /\ train_len = 0
    /\ shuffle_outcomes = {} /\ fold_id = 0 /\ SAVE_MODEL = TRUE
    /\ tpc = "idle"
    /\ train_epoch = 0 /\ batch_idx_start = 0 /\ iter = 0
    /\ mode = "train"
    /\ grad = {}
    /\ param_groups_lr = <<>>
    /\ opt_steps = <<>>
    /\ ema_shadow = <<>>
    /\ eval_out = <<>>
    /\ batch_log = <<>>
    /\ train_indices_shuffled = <<>>
    /\ epoch_batches = <<>>
    /\ param_data = "trained"
    /\ epoch_aucs = <<>>
    /\ best_auc = -1
    /\ save_log = <<>>

\* No generator has been drawn from and the partitioner has not been called.
RngIdle == random_state = 0 /\ calls = <<>>

InitRun ==
    /\ TrainerIdle
    /\ RngIdle
    /\ mainpc = "partition"
    /\ fold_indices = <<>>
    /\ gpu_id_queue = <<>>
    /\ results = <<>>
    /\ mean_score = <<>>
    /\ oof_tables = <<>>
    /\ pc = [f \in Folds |-> "pending"]
    /\ use_gpu_id = [f \in Folds |-> None]
    /\ curr_epoch = [f \in Folds |-> None]
    /\ epoch_eval_score = [f \in Folds |-> <<>>]
    /\ epoch_val_id_to_pred = [f \in Folds |-> <<>>]
    /\ seen = [f \in Folds |-> {}]
    /\ raised = [f \in Folds |-> "none"]

\* Every pool size and fold count, on one data set.
Init ==
    /\ program \in {"kfolds", "multilingual"}
    /\ NUM_FOLDS \in 1 .. MaxFolds
    /\ NUM_GPUS \in 1 .. MaxGpus
    /\ NUM_EPOCHS \in 1 .. MaxEpochs
    /\ numExamples = MaxExamples
    /\ all_ids = TypicalIds(numExamples)
    /\ all_val_flag = [i \in Examples |-> TRUE]
    /\ shuffled = [j \in 1 .. numExamples |-> numExamples - j]
    /\ auc_values = {1}
    /\ single_class = {}
    /\ InitRun

\* Every data set, on a single device.
DataInit ==
    /\ program \in {"kfolds", "multilingual"}
    /\ numExamples \in 1 .. MaxExamples
    /\ NUM_FOLDS \in 1 .. MaxFolds
    /\ NUM_GPUS = 1
    /\ NUM_EPOCHS \in 1 .. MaxEpochs
    /\ all_ids \in {TypicalIds(numExamples), ReversedIds(numExamples)}
    /\ all_val_flag \in [Examples -> BOOLEAN]
    /\ program = "multilingual" => \A i \in Examples : all_val_flag[i]
    /\ shuffled \in Shuffles(numExamples)
    /\ auc_values = {1}
    /\ single_class = {}
    /\ InitRun

\* Data sets in which examples may share an id (the loaders concatenate two
\* CSV files and never check the ids), on a single device.
DuplicateIdsInit ==
    /\ program \in {"kfolds", "multilingual"}
    /\ numExamples = MaxExamples
    /\ NUM_FOLDS \in 1 .. MaxFolds
    /\ NUM_GPUS = 1
    /\ NUM_EPOCHS \in 1 .. MaxEpochs
    /\ all_ids \in [Examples -> {10 + i : i \in Examples}]
    /\ all_val_flag = [i \in Examples |-> TRUE]
    /\ shuffled = [j \in 1 .. numExamples |-> numExamples - j]
    /\ auc_values = {1}
    /\ single_class = {}
    /\ InitRun

\* Data sets in which some folds' validation labels hold one class only.
SingleClassInit ==
    /\ program \in {"kfolds", "multilingual"}
    /\ numExamples = MaxExamples
    /\ NUM_FOLDS \in 1 .. MaxFolds
    /\ NUM_GPUS \in 1 .. MaxGpus
    /\ NUM_EPOCHS \in 1 .. MaxEpochs
    /\ all_ids = TypicalIds(numExamples)
    /\ all_val_flag = [i \in Examples |-> TRUE]
    /\ shuffled = [j \in 1 .. numExamples |-> numExamples - j]
    /\ auc_values = {1}
    /\ single_class \in SUBSET Folds
    /\ InitRun

\* Data on which the folds' scores differ: two or three folds on one or two
\* devices, every score list over two values.
ScoresInit ==
    /\ program \in {"kfolds", "multilingual"}
    /\ numExamples = MaxExamples
    /\ NUM_FOLDS \in {2, 3}
    /\ NUM_GPUS \in {1, 2}
    /\ NUM_EPOCHS \in 1 .. MaxEpochs
    /\ all_ids = TypicalIds(numExamples)
    /\ all_val_flag = [i \in Examples |-> TRUE]
    /\ shuffled = [j \in 1 .. numExamples |-> numExamples - j]
    /\ auc_values = {1, 2}
    /\ single_class = {}
    /\ InitRun

\* Two folds whose validation sets take a full batch and one more example,
\* and a full batch.
LongValidationInit ==
    /\ program \in {"kfolds", "multilingual"}
    /\ numExamples = 2 * BATCH_SIZE + 1
    /\ NUM_FOLDS = 2
    /\ NUM_GPUS = 1
    /\ NUM_EPOCHS \in 1 .. MaxEpochs
    /\ all_ids \in {TypicalIds(numExamples), ReversedIds(numExamples)}
    /\ all_val_flag = [i \in Examples |-> TRUE]
    /\ shuffled \in {[j \in 1 .. numExamples |-> j - 1],
                      [j \in 1 .. numExamples |-> numExamples - j],
                      [j \in 1 .. numExamples |-> (j + 1) % numExamples]}
    /\ auc_values = {1}
    /\ single_class = {}
    /\ InitRun

----------------------------------------------------------------------------
\* The main process.

\* fold_indices = generate_train_kfolds_indices(all_strings)
Partition ==
    /\ mainpc = "partition"
    /\ IF KFoldRejects(numExamples, NUM_FOLDS)
       THEN /\ mainpc' = "config_error"
            /\ UNCHANGED fold_indices
       ELSE /\ mainpc' = "prime"
            /\ fold_indices' = generate_train_kfolds_indices(shuffled, numExamples, NUM_FOLDS)
    /\ UNCHANGED <<config, trainvars, rngvars, results, mean_score, oof_tables, gpu_id_queue, foldvars>>

\* with mp.Pool(NUM_GPUS, maxtasksperchild=1): prime the queue, call starmap.
Prime ==
    /\ mainpc = "prime"
    /\ gpu_id_queue' = PrimedQueue(NUM_GPUS)
    /\ mainpc' = "starmap"
    /\ UNCHANGED <<config, trainvars, rngvars, fold_indices, results, mean_score, oof_tables, foldvars>>

\* starmap returns the list of results in fold order, or re-raises.
StarmapReturn ==
    /\ mainpc = "starmap"
    /\ AllTasksReported
    /\ IF StarmapRaises
       THEN /\ mainpc' = "raised"
            /\ UNCHANGED results
       ELSE /\ mainpc' = "mean"
            /\ results' = StarmapResults
    /\ UNCHANGED <<config, trainvars, rngvars, fold_indices, mean_score, oof_tables, gpu_id_queue, foldvars>>

ComputeMean ==
    /\ mainpc = "mean"
    /\ mean_score' = MeanScore(results)
    /\ mainpc' = "oof"
    /\ UNCHANGED <<config, trainvars, rngvars, fold_indices, results, oof_tables, gpu_id_queue, foldvars>>

\* One iteration of "for curr_epoch in range(NUM_EPOCHS)" writing one table.
WriteOof ==
    /\ mainpc = "oof"
    /\ Len(oof_tables) < NUM_EPOCHS
    /\ oof_tables' = Append(oof_tables, OofTable(results, Len(oof_tables) + 1))
    /\ mainpc' = IF Len(oof_tables) + 1 = NUM_EPOCHS THEN "finished" ELSE "oof"
    /\ UNCHANGED <<config, trainvars, rngvars, fold_indices, results, mean_score, gpu_id_queue, foldvars>>

----------------------------------------------------------------------------
\* main_driver(fold_id, ...), run by a pool worker.

\* A free worker takes the next task and calls main_driver.
Start(f) ==
    /\ mainpc = "starmap"
    /\ NextTask(f)
    /\ WorkerFree
    /\ pc' = [pc EXCEPT ![f] = "acquire"]
    /\ UNCHANGED <<config, trainvars, rngvars, mainvars, raised, gpu_id_queue, use_gpu_id, curr_epoch,
                   epoch_eval_score, epoch_val_id_to_pred, seen>>

\* The queue after get(): the head is removed.
QueueAfterGetPeek(q) == q
QueueAfterGet(q) == Tail(q)

\* use_gpu_id = gpu_id_queue.get(): blocks while the queue is empty.
Acquire(f) ==
    /\ pc[f] = "acquire"
    /\ gpu_id_queue # <<>>
    /\ use_gpu_id' = [use_gpu_id EXCEPT ![f] = Head(gpu_id_queue)]
    /\ gpu_id_queue' = QueueAfterGet(gpu_id_queue)
    /\ pc' = [pc EXCEPT ![f] = "init"]
    /\ UNCHANGED <<config, trainvars, rngvars, mainvars, raised, curr_epoch, epoch_eval_score,
                   epoch_val_id_to_pred, seen>>

\* Model, optimizer and data slices are built; the epoch loop is entered.
InitModel(f) ==
    /\ pc[f] = "init"
    /\ curr_epoch' = [curr_epoch EXCEPT ![f] = 0]
    /\ pc' = [pc EXCEPT ![f] = "train"]
    /\ UNCHANGED <<config, trainvars, rngvars, mainvars, raised, gpu_id_queue, use_gpu_id, epoch_eval_score,
                   epoch_val_id_to_pred, seen>>

\* train(classifier, [train_features, train_labels, None], ...)
TrainSeesAll(f) == TrainExamples(f) \cup {<<"all", i>> : i \in Range(val_indices(f))}
TrainSees(f) == TrainExamples(f)

Train(f) ==
    /\ pc[f] = "train"
    /\ seen' = [seen EXCEPT ![f] = @ \cup TrainSees(f)]
    /\ pc' = [pc EXCEPT ![f] = "eval"]
    /\ UNCHANGED <<config, trainvars, rngvars, mainvars, raised, gpu_id_queue, use_gpu_id, curr_epoch,
                   epoch_eval_score, epoch_val_id_to_pred>>

\* Where the epoch loop goes after the evaluation of epoch e.
AfterEvalStopEarly(e) == "release"
AfterEval(e) == IF e + 1 < NUM_EPOCHS THEN "train" ELSE "release"

\* evaluate(), the two appends (and the checkpoint save), then the next
\* iteration of the epoch loop or its exit.
Evaluate(f) ==
    /\ pc[f] = "eval"
    /\ ~EvaluateRaises(f)
    /\ \E auc \in auc_values :
          epoch_eval_score' = [epoch_eval_score EXCEPT ![f] = Append(@, auc)]
    /\ epoch_val_id_to_pred' =
          [epoch_val_id_to_pred EXCEPT ![f] = Append(@, EpochDict(f, curr_epoch[f]))]
    /\ pc' = [pc EXCEPT ![f] = AfterEval(curr_epoch[f])]
    /\ curr_epoch' = [curr_epoch EXCEPT ![f] =
                         IF AfterEval(@) = "train" THEN @ + 1 ELSE @]
    /\ UNCHANGED <<config, trainvars, rngvars, mainvars, raised, gpu_id_queue, use_gpu_id, seen>>

\* The queue after put(id).
QueueAfterPutNothing(q, id) == q
QueueAfterPut(q, id) == Append(q, id)

\* gpu_id_queue.put(use_gpu_id)
Release(f) ==
    /\ pc[f] = "release"
    /\ gpu_id_queue' = QueueAfterPut(gpu_id_queue, use_gpu_id[f])
    /\ pc' = [pc EXCEPT ![f] = "return"]
    /\ UNCHANGED <<config, trainvars, rngvars, mainvars, raised, use_gpu_id, curr_epoch, epoch_eval_score,
                   epoch_val_id_to_pred, seen>>

\* return epoch_eval_score, epoch_val_id_to_pred: the worker reports the result.
Return(f) ==
    /\ pc[f] = "return"
    /\ pc' = [pc EXCEPT ![f] = "done"]
    /\ UNCHANGED <<config, trainvars, rngvars, mainvars, raised, gpu_id_queue, use_gpu_id, curr_epoch,
                   epoch_eval_score, epoch_val_id_to_pred, seen>>

\* The exceptions that can leave main_driver at its current position: anything
\* raised by model initialisation, a training epoch, an evaluation or a
\* checkpoint save ("Exception"), and the ValueError of evaluate().
Exceptions(f) ==
    {"Exception"}
        \cup (IF pc[f] = "eval" /\ ConcatenateRaises(f)
              THEN {"ValueError: need at least one array to concatenate"}
              ELSE IF pc[f] = "eval" /\ RocAucScoreRaises(f)
              THEN {"ValueError: Only one class present in y_true"}
              ELSE {})

\* An exception leaves main_driver at once (there is no try/except and no
\* try/finally): its locals are dropped and the worker reports the exception as
\* the task's result.  use_gpu_id keeps recording which id the driver had taken.
Raise(f) ==
    /\ pc[f] \in {"init", "train", "eval"}
    /\ \E exc \in Exceptions(f) : raised' = [raised EXCEPT ![f] = exc]
    /\ pc' = [pc EXCEPT ![f] = "failed"]
    /\ curr_epoch' = [curr_epoch EXCEPT ![f] = None]
    /\ epoch_eval_score' = [epoch_eval_score EXCEPT ![f] = <<>>]
    /\ epoch_val_id_to_pred' = [epoch_val_id_to_pred EXCEPT ![f] = <<>>]
    /\ seen' = [seen EXCEPT ![f] = {}]
    /\ UNCHANGED <<config, trainvars, rngvars, mainvars, gpu_id_queue, use_gpu_id>>

----------------------------------------------------------------------------

FoldStep(f) ==
    \/ Start(f)
    \/ Acquire(f)
    \/ InitModel(f)
    \/ Train(f)
    \/ Evaluate(f)
    \/ Release(f)
    \/ Return(f)

MainStep ==
    \/ Partition
    \/ Prime
    \/ StarmapReturn
    \/ ComputeMean
    \/ WriteOof

Next ==
    \/ MainStep
    \/ \E f \in Folds : FoldStep(f)
    \/ \E f \in Folds : Raise(f)

Spec == Init /\ [][Next]_vars

DataSpec == DataInit /\ [][Next]_vars

DuplicateIdsSpec == DuplicateIdsInit /\ [][Next]_vars

SingleClassSpec == SingleClassInit /\ [][Next]_vars

ScoresSpec == ScoresInit /\ [][Next]_vars

LongValidationSpec == LongValidationInit /\ [][Next]_vars

\* The operating system keeps scheduling the main process and every worker that
\* can take a step; exceptions are never forced.  Every run takes finitely many
\* steps, so this is the same as weak fairness of each process separately.
Fairness == WF_vars(MainStep \/ \E f \in Folds : FoldStep(f))

\* The scheduling code of the two programs is the same; one is explored, with
\* the longest epoch loop.
FairInit == Init /\ program = "kfolds" /\ NUM_EPOCHS = MaxEpochs

FairSpec == FairInit /\ [][Next]_vars /\ Fairness

----------------------------------------------------------------------------
\* One driver's epoch loop, batch by batch: train() and evaluate() of
\* classifier_kfolds.py, multilingual_classifier.py and classifier_baseline.py
\* acting on the model, the optimizer and the EMA shadow.  A batch is named by
\* <<curr_epoch, batch_idx_start>>; the parameters are named by the optimizer
\* steps that produced them.

\* The programs whose train() steps the optimizer every ACCUM_FOR batches.
Accumulating == {"kfolds", "baseline"}

\* torch.optim.Adam(classifier.parameters(), lr=LR_DECAY_START) (USE_LR_DECAY =
\* False): one parameter group.
NewParamGroups == <<LR_DECAY_START>>

\* if curr_epoch == 1: for g in opt.param_groups: g['lr'] = LR_FINETUNE
LrNeverSwitches(e) == FALSE
LrSwitches(e) == e = 1

\* if curr_epoch < 1: model(batch_features, freeze=True) else freeze=False
FreezeAlways(e) == TRUE
FreezeEncoder(e) == e < 1

\* if iter % ACCUM_FOR == 0: opt.step(); opt.zero_grad()
StepsEveryBatch(it) == TRUE
StepsAtIter(it) == it % ACCUM_FOR = 0

\* ema.register(name, param.data) and ema.update(name, param.data): the shadow
\* is named by the parameter versions it was given.
EmaRegister(p) == <<p>>
EmaUpdateSkipped(shadow, p) == shadow
EmaUpdate(shadow, p) == Append(shadow, p)

\* model.eval() at the top of evaluate().
ModeKept(m) == m
ModelEval(m) == "eval"

\* The encoder's dropout draws a mask in training mode and none in eval mode.
DropoutMasks(m) == IF m = "train" THEN {"none", "drawn"} ELSE {"none"}

\* What evaluate(model, val_tuple) can return for a model with parameters p left
\* in mode m: score and predictions are functions of the parameters and the mask.
EvaluateReturns(p, m) == {<<p, d>> : d \in DropoutMasks(ModelEval(m))}

\* train_indices = list(range(len(all_labels))) and its reverse: two of the
\* orders shuffle() can leave.
RangeOrder(n) == [j \in 1 .. n |-> j - 1]
ReversedOrder(n) == [j \in 1 .. n |-> n - j]

\* train_features = all_features[train_indices] and train_labels =
\* all_labels[train_indices]: row k (from 0) of either is the row of the
\* unshuffled array that train_indices[k] names.
FeatureRow(order, k) == order[k + 1]
LabelRowUnshuffled(order, k) == k
LabelRow(order, k) == order[k + 1]

\* train_features[batch_idx_start:batch_idx_end] with the matching labels.
BatchRows(order, start, end) ==
    [k \in 1 .. end - start |->
        [feature |-> FeatureRow(order, start + k - 1),
         label |-> LabelRow(order, start + k - 1)]]

\* save_model(path, classifier, ...): the call is logged with the epoch it was
\* made in and the parameters it wrote.
SaveModel(log, path, e, p, data) ==
    Append(log, [path |-> path, epoch |-> e, params |-> p, data |-> data])

\* classifier_baseline.py, end of train(): if SAVE_MODEL: save_model(.../str(curr_epoch))
SavedByTrain(log, e, p) ==
    IF program = "baseline" /\ SAVE_MODEL
    THEN SaveModel(log, "PRETRAINED_MODEL/curr_epoch", e, p, "trained")
    ELSE log

\* multilingual_classifier.py: if epoch_auc > best_auc and SAVE_MODEL and fold_id == 0
\* classifier_kfolds.py: if fold_id == 0
SavesOnTie(auc, best) ==
    IF program = "multilingual" THEN auc >= best /\ SAVE_MODEL /\ fold_id = 0
    ELSE program = "kfolds" /\ fold_id = 0
SavesCheckpoint(auc, best) ==
    IF program = "multilingual" THEN auc > best /\ SAVE_MODEL /\ fold_id = 0
    ELSE program = "kfolds" /\ fold_id = 0

\* if USE_EMA and SAVE_MODEL and fold_id == 0 (classifier_baseline.py has no folds)
LoadsEma == USE_EMA /\ SAVE_MODEL /\ (program = "baseline" \/ fold_id = 0)

\* '{:.4f}'.format(..., epoch_auc) after epoch_auc = evaluate(...): evaluate
\* returns the pair (score, predictions) in the fold programs, and a tuple does
\* not take the format; classifier_baseline.evaluate returns the score alone.
TailFormatRaises == program \in {"kfolds", "multilingual"}

\* The driver after its set-up, before the epoch loop.
TrainerReady ==
    /\ tpc = "epoch"
    /\ train_epoch = 0 /\ batch_idx_start = 0 /\ iter = 0
    /\ mode = "train"
    /\ grad = {}
    /\ param_groups_lr = NewParamGroups
    /\ opt_steps = <<>>
    /\ ema_shadow = IF USE_EMA THEN EmaRegister(<<>>) ELSE <<>>
    /\ eval_out = <<>>
    /\ batch_log = <<>>
    /\ train_indices_shuffled = <<>>
    /\ epoch_batches = <<>>
    /\ param_data = "trained"
    /\ epoch_aucs = <<>>
    /\ best_auc = -1
    /\ save_log = <<>>

\* The scheduler's variables while one driver is followed.
SchedulerIdle ==
    /\ NUM_FOLDS = 1 /\ NUM_GPUS = 1
    /\ numExamples = 0
    /\ all_ids = <<>> /\ all_val_flag = <<>> /\ shuffled = <<>>
    /\ single_class = {}
    /\ mainpc = "starmap"
    /\ fold_indices = <<>>
    /\ gpu_id_queue = <<>>
    /\ results = <<>>
    /\ mean_score = <<>>
    /\ oof_tables = <<>>
    /\ pc = [f \in Folds |-> "train"]
    /\ use_gpu_id = [f \in Folds |-> 0]
    /\ curr_epoch = [f \in Folds |-> 0]
    /\ epoch_eval_score = [f \in Folds |-> <<>>]
    /\ epoch_val_id_to_pred = [f \in Folds |-> <<>>]
    /\ seen = [f \in Folds |-> {}]
    /\ raised = [f \in Folds |-> "none"]

TrainInit ==
    /\ program \in {"kfolds", "multilingual", "baseline"}
    /\ NUM_EPOCHS \in 1 .. MaxEpochs
    /\ ACCUM_FOR \in 1 .. MaxAccum
    /\ USE_EMA \in BOOLEAN
    /\ train_len \in 1 .. MaxTrainLen
    /\ shuffle_outcomes = {RangeOrder(train_len), ReversedOrder(train_len)}
    /\ fold_id = 0
    /\ SAVE_MODEL = TRUE
    /\ auc_values = {1}
    /\ SchedulerIdle
    /\ TrainerReady
    /\ RngIdle

\* The top of an epoch-loop iteration and the head of train(): the switch to
\* the fine-tune rate (in train() in classifier_kfolds.py, in main_driver in
\* classifier_baseline.py, in both in multilingual_classifier.py), the shuffle
\* of train_indices, model.train(), iter = 0.
BeginEpoch ==
    /\ tpc = "epoch"
    /\ train_indices_shuffled' \in shuffle_outcomes
    /\ epoch_batches' = <<>>
    /\ param_groups_lr' = IF LrSwitches(train_epoch)
                          THEN [g \in DOMAIN param_groups_lr |-> LR_FINETUNE]
                          ELSE param_groups_lr
    /\ mode' = "train"
    /\ iter' = 0
    /\ batch_idx_start' = 0
    /\ tpc' = IF train_len > 0 THEN "batch" ELSE "evaluate"
    /\ save_log' = IF train_len > 0 THEN save_log
                   ELSE SavedByTrain(save_log, train_epoch, opt_steps)
    /\ UNCHANGED <<config, mainvars, gpu_id_queue, foldvars, rngvars, train_epoch, grad, opt_steps,
                   ema_shadow, eval_out, batch_log, param_data, epoch_aucs, best_auc>>

\* One iteration of train()'s batch loop.
TrainBatch ==
    /\ tpc = "batch"
    /\ LET accum == program \in Accumulating
           it == IF accum THEN iter + 1 ELSE iter
           batch_idx_end == Min(batch_idx_start + BATCH_SIZE, train_len)
           \* multilingual_classifier.py: opt.zero_grad() before the forward pass
           g0 == IF accum THEN grad ELSE {}
           freeze == FreezeEncoder(train_epoch)
           \* backward() adds the batch's gradients to .grad
           g1 == g0 \cup {<<train_epoch, batch_idx_start>>}
           step == IF accum THEN StepsAtIter(it) ELSE TRUE
           steps1 == IF step
                     THEN Append(opt_steps, [epoch |-> train_epoch,
                                             start |-> batch_idx_start,
                                             grads |-> g1,
                                             lr |-> param_groups_lr])
                     ELSE opt_steps
           zeroed == accum /\ step
       IN /\ iter' = it
          /\ opt_steps' = steps1
          /\ grad' = IF zeroed THEN {} ELSE g1
          /\ ema_shadow' = IF USE_EMA THEN EmaUpdate(ema_shadow, steps1) ELSE ema_shadow
          /\ batch_log' = Append(batch_log, [epoch |-> train_epoch,
                                             start |-> batch_idx_start,
                                             size |-> batch_idx_end - batch_idx_start,
                                             freeze |-> freeze,
                                             stepped |-> step,
                                             zeroed |-> zeroed])
          /\ epoch_batches' = Append(epoch_batches,
                                      BatchRows(train_indices_shuffled, batch_idx_start,
                                                batch_idx_end))
          /\ batch_idx_start' = batch_idx_start + BATCH_SIZE
          /\ tpc' = IF batch_idx_start + BATCH_SIZE < train_len THEN "batch" ELSE "evaluate"
          /\ save_log' = IF batch_idx_start + BATCH_SIZE < train_len THEN save_log
                         ELSE SavedByTrain(save_log, train_epoch, steps1)
    /\ UNCHANGED <<config, mainvars, gpu_id_queue, foldvars, rngvars, train_epoch, mode,
                   param_groups_lr, eval_out, train_indices_shuffled, param_data,
                   epoch_aucs, best_auc>>

\* The evaluate() call (two calls in classifier_baseline.py: raw and translated
\* validation tuples) and the end of the epoch-loop iteration.
EvaluateStep ==
    /\ tpc = "evaluate"
    /\ mode' = ModelEval(mode)
    /\ eval_out' \in [1 .. (IF program = "baseline" THEN 2 ELSE 1) ->
                         EvaluateReturns(opt_steps, mode)]
    /\ \E epoch_auc \in auc_values :
          /\ epoch_aucs' = Append(epoch_aucs, epoch_auc)
          /\ IF SavesCheckpoint(epoch_auc, best_auc)
             THEN /\ best_auc' = IF program = "multilingual" THEN epoch_auc ELSE best_auc
                  /\ save_log' = SaveModel(save_log, "PRETRAINED_MODEL", train_epoch,
                                           opt_steps, param_data)
             ELSE UNCHANGED <<best_auc, save_log>>
    /\ IF train_epoch + 1 < NUM_EPOCHS
       THEN train_epoch' = train_epoch + 1 /\ tpc' = "epoch"
       ELSE UNCHANGED train_epoch /\ tpc' = "tail"
    \* train()'s locals are gone once the epoch's evaluation is over
    /\ train_indices_shuffled' = <<>>
    /\ epoch_batches' = <<>>
    /\ UNCHANGED <<config, mainvars, gpu_id_queue, foldvars, rngvars, batch_idx_start, iter, grad,
                   param_groups_lr, opt_steps, ema_shadow, batch_log, param_data>>

\* main_driver after the epoch loop: with an EMA shadow and SAVE_MODEL (in fold
\* 0 of the fold programs) the shadow values are loaded into the parameters,
\* the model is evaluated once more, the score is printed and the model saved
\* under PRETRAINED_MODEL_ema.
EmaTail ==
    /\ tpc = "tail"
    /\ IF LoadsEma
       THEN /\ param_data' = "ema"
            /\ mode' = ModelEval(mode)
            /\ eval_out' \in [1 .. (IF program = "baseline" THEN 2 ELSE 1) ->
                                 EvaluateReturns(ema_shadow, mode)]
            /\ IF TailFormatRaises
               THEN tpc' = "raised" /\ UNCHANGED save_log
               ELSE /\ tpc' = "finished"
                    /\ save_log' = SaveModel(save_log, "PRETRAINED_MODEL_ema", train_epoch,
                                             ema_shadow, "ema")
       ELSE tpc' = "finished" /\ UNCHANGED <<param_data, mode, eval_out, save_log>>
    /\ UNCHANGED <<config, mainvars, gpu_id_queue, foldvars, rngvars, train_epoch,
                   batch_idx_start, iter, grad, param_groups_lr, opt_steps, ema_shadow,
                   batch_log, train_indices_shuffled, epoch_batches, epoch_aucs, best_auc>>

TrainNext == BeginEpoch \/ TrainBatch \/ EvaluateStep \/ EmaTail

TrainSpec == TrainInit /\ [][TrainNext]_vars

\* The batch-level driver over every order shuffle() can leave.
ShuffleInit ==
    /\ program \in {"kfolds", "multilingual", "baseline"}
    /\ NUM_EPOCHS \in 1 .. MaxEpochs
    /\ ACCUM_FOR = 1
    /\ USE_EMA = FALSE
    /\ train_len \in 1 .. MaxTrainLen
    /\ shuffle_outcomes = Shuffles(train_len)
    /\ fold_id = 0
    /\ SAVE_MODEL = TRUE
    /\ auc_values = {1}
    /\ SchedulerIdle
    /\ TrainerReady
    /\ RngIdle

ShuffleSpec == ShuffleInit /\ [][TrainNext]_vars

\* The batch-level driver of any fold, with and without SAVE_MODEL, over the
\* scores the epochs can reach in any order: rising, falling and tied.
CheckpointInit ==
    /\ program \in {"kfolds", "multilingual"}
    /\ NUM_EPOCHS \in 1 .. MaxEpochs
    /\ ACCUM_FOR = 1
    /\ USE_EMA \in BOOLEAN
    /\ train_len = BATCH_SIZE
    /\ shuffle_outcomes = {RangeOrder(train_len)}
    /\ fold_id \in {0, 1}
    /\ SAVE_MODEL \in BOOLEAN
    /\ auc_values = {0, 1, 2}
    /\ SchedulerIdle
    /\ TrainerReady
    /\ RngIdle

CheckpointSpec == CheckpointInit /\ [][TrainNext]_vars

----------------------------------------------------------------------------
\* The Fold Partitioner called repeatedly in one process, with other random
\* draws in between.  A generator is named by its state, a natural number; a
\* new RandomState(seed) starts in state seed.

\* The permutation a generator in state s produces for range(n).
PermAt(s, n) == [j \in 1 .. n |-> (j - 1 + s) % n]

\* sklearn's check_random_state(random_state) inside KFold.split: an int makes
\* a new RandomState(seed) for this call; the process-wide generator (state g)
\* is not read.
ProcessWideRandomState(seed, g) == g
check_random_state(seed, g) == seed

PartitionInit ==
    /\ program \in {"kfolds", "multilingual"}
    /\ numExamples \in 2 .. MaxExamples
    /\ NUM_FOLDS \in 2 .. numExamples
    /\ NUM_GPUS = 1
    /\ NUM_EPOCHS = 1
    /\ all_ids = TypicalIds(numExamples)
    /\ all_val_flag = [i \in Examples |-> TRUE]
    /\ shuffled = PermAt(SEED, numExamples)
    /\ auc_values = {1}
    /\ single_class = {}
    /\ InitRun

\* generate_train_kfolds_indices(input_df) with len(input_df) = numExamples.
CallPartitioner ==
    /\ Len(calls) < MaxCalls
    /\ calls' = Append(calls,
          [draws |-> random_state,
           folds |-> generate_train_kfolds_indices(
                         PermAt(check_random_state(SEED, random_state), numExamples),
                         numExamples, NUM_FOLDS)])
    /\ UNCHANGED <<config, mainvars, gpu_id_queue, foldvars, trainvars, random_state>>

\* Any other random draw of the process: shuffle(train_indices) of an epoch.
OtherDraw ==
    /\ random_state < MaxDraws
    /\ random_state' = random_state + 1
    /\ UNCHANGED <<config, mainvars, gpu_id_queue, foldvars, trainvars, calls>>

PartitionNext == CallPartitioner \/ OtherDraw

PartitionSpec == PartitionInit /\ [][PartitionNext]_vars

----------------------------------------------------------------------------
\* Vocabulary of the properties.

Primed == mainpc \notin {"partition", "prime", "config_error"}
AllDone == \A f \in Folds : pc[f] = "done"
AnyFailed == \E f \in Folds : pc[f] = "failed"
\* Drivers that took a GPU id from the queue and have not put it back.
NotReleased == {f \in Folds : pc[f] \in Holding \/ (pc[f] = "failed" /\ use_gpu_id[f] # None)}
InQueue(id) == Cardinality({j \in DOMAIN gpu_id_queue : gpu_id_queue[j] = id})
HeldInFlight(id) == Cardinality({f \in Folds : pc[f] \in Holding /\ use_gpu_id[f] = id})
NoDuplicates(s) == \A a, b \in 1 .. Len(s) : a # b => s[a] # s[b]

\* C1: each GPU id is held by at most one Fold Driver between get() and put(),
\* the drivers that have acquired and not released never outnumber the devices,
\* and with one device no two drivers are between get() and put() together.
C1_OneDriverPerGpu ==
    /\ \A f, g \in NotReleased : f # g => use_gpu_id[f] # use_gpu_id[g]
    /\ \A f \in Folds : pc[f] \in Holding => use_gpu_id[f] \in 0 .. NUM_GPUS - 1
    /\ Cardinality(NotReleased) <= NUM_GPUS
    /\ NUM_GPUS = 1 => Cardinality({f \in Folds : pc[f] \in Holding}) <= 1

C1_Witness ==
    /\ NUM_FOLDS > NUM_GPUS
    /\ \E f, g \in Folds : f # g /\ pc[f] = "train" /\ pc[g] = "eval"

\* C2: token conservation: once the queue is primed, every GPU id 0..NUM_GPUS-1
\* is exactly once either in gpu_id_queue or held by an in-flight Fold Driver,
\* also after a Fold Driver has failed.
C2_TokenConservation ==
    Primed =>
        /\ \A id \in 0 .. NUM_GPUS - 1 : InQueue(id) + HeldInFlight(id) = 1
        /\ Len(gpu_id_queue) + Cardinality({f \in Folds : pc[f] \in Holding}) = NUM_GPUS

\* C3: a Fold Driver that failed after acquiring its GPU id has put the id back:
\* the id is in the queue again or has been handed on to another driver.
C3_FailedDriverReleased ==
    \A f \in Folds :
        pc[f] = "failed" =>
            \/ InQueue(use_gpu_id[f]) = 1
            \/ \E g \in Folds : g # f /\ pc[g] \in Holding /\ use_gpu_id[g] = use_gpu_id[f]

\* C4: whatever drivers fail, a driver waiting in gpu_id_queue.get() eventually
\* obtains a GPU id, and starmap eventually returns or raises.
C4_NoStarvation ==
    /\ \A f \in 0 .. MaxFolds - 1 :
          (f \in Folds /\ pc[f] = "acquire") ~> (f \in Folds /\ pc[f] # "acquire")
    /\ <>(mainpc \in {"config_error", "raised", "mean", "oof", "finished"})

\* C5: under fair scheduling, a run in which no fold fails brings every one of
\* the NUM_FOLDS Fold Drivers to DONE, also when folds outnumber devices.
C5_AllFoldsComplete == <>(mainpc = "config_error" \/ AnyFailed \/ AllDone)

C5_Witness == NUM_FOLDS > NUM_GPUS /\ AllDone

\* C6: barrier: the main process is past starmap (computing the mean, writing
\* tables, or having re-raised) only when every Fold Driver has returned or
\* failed, and it aggregates only when every one has returned.
C6_Barrier ==
    /\ mainpc \in {"mean", "oof", "finished"} => AllDone
    /\ mainpc = "raised" => \A f \in Folds : pc[f] \in {"done", "failed"}

C6_Witness == mainpc = "oof" /\ NUM_FOLDS > NUM_GPUS /\ Len(oof_tables) = 1

\* One step of Fold Driver f, as the order of C7 allows it.
C7_Step(f) ==
    LET n == Len(epoch_eval_score[f])
        n2 == Len(epoch_eval_score'[f])
        same == /\ curr_epoch'[f] = curr_epoch[f]
                /\ epoch_eval_score'[f] = epoch_eval_score[f]
                /\ epoch_val_id_to_pred'[f] = epoch_val_id_to_pred[f]
    IN \/ pc'[f] = pc[f] /\ same
       \/ pc[f] = "pending" /\ pc'[f] = "acquire" /\ same
       \/ pc[f] = "acquire" /\ pc'[f] = "init" /\ same
       \/ pc[f] = "init" /\ pc'[f] = "train" /\ curr_epoch'[f] = 0 /\ n2 = 0
       \/ pc[f] = "train" /\ pc'[f] = "eval" /\ same
       \/ /\ pc[f] = "eval" /\ pc'[f] = "train"
          /\ curr_epoch'[f] = curr_epoch[f] + 1 /\ curr_epoch'[f] < NUM_EPOCHS
          /\ n2 = n + 1
       \/ /\ pc[f] = "eval" /\ pc'[f] = "release"
          /\ curr_epoch[f] = NUM_EPOCHS - 1
          /\ n2 = n + 1
       \/ pc[f] = "release" /\ pc'[f] = "return" /\ same
       \/ pc[f] = "return" /\ pc'[f] = "done" /\ same
       \/ pc[f] \in {"init", "train", "eval"} /\ pc'[f] = "failed"

C7_State(f) ==
    /\ Len(epoch_val_id_to_pred[f]) = Len(epoch_eval_score[f])
    /\ pc[f] \in {"train", "eval"} =>
          /\ curr_epoch[f] \in 0 .. NUM_EPOCHS - 1
          /\ Len(epoch_eval_score[f]) = curr_epoch[f]
          /\ use_gpu_id[f] # None /\ InQueue(use_gpu_id[f]) = 0
    /\ pc[f] \in {"pending", "acquire"} => use_gpu_id[f] = None
    /\ pc[f] \in {"release", "return", "done"} => Len(epoch_eval_score[f]) = NUM_EPOCHS

\* C7: every step of a Fold Driver is the next step of ACQUIRE_TOKEN, INIT_MODEL,
\* (train, evaluate) for epochs 0..NUM_EPOCHS-1 in order, RELEASE_TOKEN, DONE (or
\* an exception leaving it); training and evaluation happen only while the GPU id
\* is held; a completed fold has exactly NUM_EPOCHS scores and prediction maps.
C7_DriverOrder ==
    /\ [][\A f \in Folds : C7_Step(f)]_vars
    /\ [](\A f \in Folds : C7_State(f))

C7_Witness ==
    \E f \in Folds : pc[f] = "done" /\ NUM_EPOCHS = MaxEpochs /\ f > 0

\* C8: for 2 <= K <= N the partitioner returns K (train, val) pairs, every index
\* of 0..N-1 is in exactly one val set, each train set is the complement of its
\* val set, and every index is in exactly K-1 train sets.
C8_Partition ==
    (mainpc # "partition" /\ ~KFoldRejects(numExamples, NUM_FOLDS)) =>
        /\ mainpc # "config_error"
        /\ DOMAIN fold_indices = Folds
        /\ \A f \in Folds :
              /\ NoDuplicates(val_indices(f)) /\ NoDuplicates(train_indices(f))
              /\ Range(train_indices(f)) = Examples \ Range(val_indices(f))
        /\ \A i \in Examples :
              /\ Cardinality({f \in Folds : i \in Range(val_indices(f))}) = 1
              /\ Cardinality({f \in Folds : i \in Range(train_indices(f))}) = NUM_FOLDS - 1

C8_Witness ==
    /\ mainpc = "prime" /\ numExamples = 3 /\ NUM_FOLDS = 2
    /\ shuffled = <<2, 0, 1>>

\* Ids of the examples some fold evaluates.
ScoredIds == {all_ids[i] : i \in UNION {Range(ValRows(f)) : f \in Folds}}
TableIds(t) == [j \in 1 .. Len(t) |-> t[j][1]]

\* C9: after a run in which every fold completed, exactly NUM_EPOCHS tables are
\* written, table e holds epoch e's predictions, and each table holds every
\* scored id exactly once (all N ids when every example is validation-eligible).
C9_OofTables ==
    mainpc = "finished" =>
        /\ Len(oof_tables) = NUM_EPOCHS
        /\ \A e \in 1 .. NUM_EPOCHS :
              /\ NoDuplicates(TableIds(oof_tables[e]))
              /\ Range(TableIds(oof_tables[e])) = ScoredIds
              /\ \A j \in 1 .. Len(oof_tables[e]) : oof_tables[e][j][2][2] = e - 1
              /\ (\A i \in Examples : all_val_flag[i]) => Len(oof_tables[e]) = numExamples

C9_Witness ==
    /\ mainpc = "finished" /\ NUM_EPOCHS = 2 /\ numExamples = 3
    /\ \E i \in Examples : ~all_val_flag[i]

\* C10: every prediction in a fold's Epoch Results and in the out-of-fold tables
\* for example x comes from the fold that holds x out, and that fold's Training
\* Loop was never given x: what a fold trains on (train_indices plus the
\* pseudo-labelled examples) is disjoint from what it evaluates.
C10_PredictionMadeUnseen(id, p) ==
    /\ p[3] \in Examples /\ all_ids[p[3]] = id
    /\ <<"all", p[3]>> \notin seen[p[1]]
    /\ p[3] \in Range(val_indices(p[1]))

C10_OutOfFold ==
    /\ \A f \in Folds : \A e \in 1 .. Len(epoch_val_id_to_pred[f]) :
          \A id \in DOMAIN epoch_val_id_to_pred[f][e] :
              /\ epoch_val_id_to_pred[f][e][id][1] = f
              /\ C10_PredictionMadeUnseen(id, epoch_val_id_to_pred[f][e][id])
    /\ \A e \in 1 .. Len(oof_tables) : \A j \in 1 .. Len(oof_tables[e]) :
          C10_PredictionMadeUnseen(oof_tables[e][j][1], oof_tables[e][j][2])
    /\ mainpc \notin {"partition", "config_error"} =>
          \A f \in Folds : seen[f] \cap {<<"all", i>> : i \in Range(ValRows(f))} = {}

C10_Witness ==
    /\ mainpc = "finished" /\ program = "multilingual"
    /\ \A f \in Folds : <<"pseudo", 0>> \in seen[f]

\* Two folds' prediction maps for epoch e (1-based) have an example id in common.
KeysConflict(e) ==
    \E f, g \in Folds :
        /\ f # g
        /\ DOMAIN results[f][2][e] \cap DOMAIN results[g][2][e] # {}

\* C11: when two folds' prediction maps for the same epoch contain the same
\* example id, the OOF Aggregator produces no table for that epoch (it fails
\* instead of keeping one fold's prediction).
C11_ConflictingKeysFail ==
    \A e \in 1 .. Len(oof_tables) : ~KeysConflict(e)

\* C17: when a fold's driver has failed, the main process computes no mean
\* score and writes no table: it never takes the failed fold's (empty) lists as
\* a result, and ends by re-raising the failure; it re-raises only for a failure.
C17_FailureSurfaced ==
    /\ AnyFailed =>
          /\ mainpc \notin {"mean", "oof", "finished"}
          /\ results = <<>> /\ mean_score = <<>> /\ oof_tables = <<>>
    /\ mainpc = "raised" => \E f \in Folds : raised[f] # "none"

C17_Witness ==
    /\ mainpc = "raised"
    /\ \E f \in Folds : pc[f] = "failed" /\ \A g \in Folds \ {f} : pc[g] = "done"
    /\ NUM_FOLDS >= 2

\* C18: with a fold count below 2 or above the number of examples the
\* partitioner raises: the main process stops there, no fold indices exist, the
\* queue was never written or read and no driver was started.
C18_InvalidFoldCount ==
    (NUM_FOLDS < 2 \/ NUM_FOLDS > numExamples) =>
        /\ mainpc \in {"partition", "config_error"}
        /\ fold_indices = <<>>
        /\ gpu_id_queue = <<>>
        /\ \A f \in Folds : pc[f] = "pending" /\ use_gpu_id[f] = None

C18_Witness == mainpc = "config_error" /\ NUM_FOLDS >= 2 /\ NUM_FOLDS > numExamples

\* C19: a fold whose validation labels are single-class never fails because
\* of the undefined AUC.
C19_UndefinedAucNotFailure ==
    \A f \in Folds : raised[f] # "ValueError: Only one class present in y_true"

\* The examples of fold f that are flagged for validation.
FlaggedVal(f) == {i \in Range(val_indices(f)) : all_val_flag[i]}

\* C20: in classifier_kfolds a fold evaluates exactly the examples of its
\* val_indices whose flag is true: every Epoch Result has their ids as keys and
\* predictions made on them, no table has a row for an unflagged example, and
\* every fold has been trained on all of its train_indices, flagged or not.
C20_ValFlagTrimming ==
    program = "kfolds" =>
        /\ \A f \in Folds : \A e \in 1 .. Len(epoch_val_id_to_pred[f]) :
              /\ DOMAIN epoch_val_id_to_pred[f][e] = {all_ids[i] : i \in FlaggedVal(f)}
              /\ \A id \in DOMAIN epoch_val_id_to_pred[f][e] :
                    LET p == epoch_val_id_to_pred[f][e][id]
                    IN p[3] \in FlaggedVal(f) /\ all_ids[p[3]] = id
        /\ \A t \in Range(oof_tables) : \A j \in 1 .. Len(t) :
              /\ all_val_flag[t[j][2][3]]
              /\ \A i \in Examples : ~all_val_flag[i] => all_ids[i] # t[j][1]
        /\ \A f \in Folds : pc[f] \in {"eval", "release", "return", "done"} =>
              \A i \in Range(train_indices(f)) : <<"all", i>> \in seen[f]

C20_Witness ==
    /\ program = "kfolds"
    /\ mainpc = "finished"
    /\ \E i \in Examples : \E f, g \in Folds :
          /\ ~all_val_flag[i]
          /\ i \in Range(val_indices(f))
          /\ <<"all", i>> \in seen[g]
          /\ FlaggedVal(f) # {}

----------------------------------------------------------------------------
\* Properties of the training and evaluation loops.

\* The 1-based position of a logged batch in its epoch.
Position(b) == b.start \div BATCH_SIZE + 1
\* The number of batches of an epoch.
NumBatches == (train_len + BATCH_SIZE - 1) \div BATCH_SIZE
\* Epoch e's train() call has returned.
EpochTrained(e) ==
    train_epoch > e \/ (train_epoch = e /\ tpc \in {"evaluate", "tail", "finished", "raised"})
StepsOfEpoch(e) == {j \in DOMAIN opt_steps : opt_steps[j].epoch = e}

\* C12: in the accumulating training loops the optimizer steps exactly at the
\* batches whose 1-based position in the epoch is a multiple of ACCUM_FOR, the
\* gradients are zeroed exactly after those steps, and an epoch of B batches
\* makes B div ACCUM_FOR steps.
C12_StepEveryAccumFor ==
    program \in Accumulating =>
        /\ \A j \in DOMAIN batch_log :
              /\ batch_log[j].stepped <=> Position(batch_log[j]) % ACCUM_FOR = 0
              /\ batch_log[j].zeroed <=> batch_log[j].stepped
        /\ (batch_log # <<>> /\ batch_log[Len(batch_log)].stepped) => grad = {}
        /\ \A e \in 0 .. NUM_EPOCHS - 1 :
              EpochTrained(e) => Cardinality(StepsOfEpoch(e)) = NumBatches \div ACCUM_FOR

C12_Witness ==
    /\ program \in Accumulating
    /\ tpc = "finished"
    /\ ACCUM_FOR = 2
    /\ NumBatches >= 2
    /\ \E j \in DOMAIN batch_log : batch_log[j].stepped
    /\ \E j \in DOMAIN batch_log : ~batch_log[j].stepped

\* C13: in the accumulating training loops every optimizer step applies the
\* gradients of exactly ACCUM_FOR batches, all of the step's own epoch, and the
\* gradient buffer is empty when the first batch of an epoch starts.
C13_StepsWithinEpoch ==
    program \in Accumulating =>
        /\ \A j \in DOMAIN opt_steps :
              /\ Cardinality(opt_steps[j].grads) = ACCUM_FOR
              /\ \A b \in opt_steps[j].grads : b[1] = opt_steps[j].epoch
        /\ (tpc = "batch" /\ batch_idx_start = 0) => grad = {}

\* C14: every batch of epoch 0 runs the forward pass with freeze = True and
\* every batch of a later epoch with freeze = False; after an unfrozen batch no
\* batch is frozen.
C14_FreezeSchedule ==
    /\ \A j \in DOMAIN batch_log : batch_log[j].freeze <=> batch_log[j].epoch = 0
    /\ \A i, j \in DOMAIN batch_log :
          (i < j /\ ~batch_log[i].freeze) => ~batch_log[j].freeze

C14_Witness ==
    /\ tpc = "finished"
    /\ \E i, j \in DOMAIN batch_log : batch_log[i].freeze /\ ~batch_log[j].freeze

C16_EvaluateFrame ==
    [][tpc = "evaluate" =>
          /\ UNCHANGED <<opt_steps, grad, param_groups_lr, ema_shadow>>
          /\ \A j \in DOMAIN eval_out' :
                EvaluateReturns(opt_steps', mode') = {eval_out'[j]}]_vars

C16_Witness ==
    /\ tpc = "finished"
    /\ program = "baseline"
    /\ Len(eval_out) = 2 /\ eval_out[1] = eval_out[2]
    /\ USE_EMA /\ ema_shadow # <<>>
    /\ grad # {}
    /\ opt_steps # <<>>

----------------------------------------------------------------------------
\* Properties settled with the remaining claims.

\* The folds of the seeded permutation.
fold_indices_of_seed ==
    generate_train_kfolds_indices(PermAt(SEED, numExamples), numExamples, NUM_FOLDS)

\* C21: all calls of the Fold Partitioner on inputs of one length return the
\* same list of (train, val) pairs in the same fold order, whatever was drawn
\* from the process-wide generators between them.
C21_PartitionerDeterministic ==
    \A i, j \in DOMAIN calls : calls[i].folds = calls[j].folds

C21_Witness ==
    \E i, j \in DOMAIN calls :
        /\ calls[i].draws # calls[j].draws
        /\ NUM_FOLDS < numExamples
        /\ calls[i].folds = fold_indices_of_seed

\* C22: once starmap has returned, the results list has one entry per fold,
\* entry f holds the NUM_EPOCHS scores the driver of fold f returned, and the
\* mean reported for epoch e is the sum of the folds' epoch-e scores over K.
C22_ResultsInFoldOrder ==
    mainpc \in {"mean", "oof", "finished"} =>
        /\ DOMAIN results = Folds
        /\ \A f \in Folds :
              /\ results[f][1] = epoch_eval_score[f]
              /\ Len(results[f][1]) = NUM_EPOCHS
        /\ mainpc # "mean" =>
              /\ Len(mean_score) = NUM_EPOCHS
              /\ \A e \in 1 .. NUM_EPOCHS :
                    mean_score[e] =
                        <<SumSeq([k \in 1 .. NUM_FOLDS |-> epoch_eval_score[k - 1][e]]),
                          NUM_FOLDS>>

\* Fold 1 put its GPU id back before fold 0 did, and their scores differ.
C22_Witness ==
    /\ mainpc = "finished"
    /\ NUM_FOLDS = 2 /\ NUM_GPUS = 2 /\ NUM_EPOCHS = 2
    /\ gpu_id_queue = <<use_gpu_id[1], use_gpu_id[0]>>
    /\ epoch_eval_score[0] = <<1, 2>>
    /\ epoch_eval_score[1] = <<2, 2>>

\* C23: for every fold and recorded epoch, evaluate returned one prediction
\* per validation row, the j-th made on the j-th row, and the recorded map
\* gives every validation id the prediction made on its own example.
C23_EvaluateAligned ==
    \A f \in Folds : \A e \in 1 .. Len(epoch_val_id_to_pred[f]) :
        LET rows == ValRows(f)
            preds == val_preds(f, e - 1)
        IN /\ Len(preds) = Len(rows)
           /\ \A j \in 1 .. Len(rows) : preds[j] = Forward(f, e - 1, rows[j])
           /\ DOMAIN epoch_val_id_to_pred[f][e] = {all_ids[rows[j]] : j \in 1 .. Len(rows)}
           /\ \A j \in 1 .. Len(rows) :
                 epoch_val_id_to_pred[f][e][all_ids[rows[j]]] = Forward(f, e - 1, rows[j])

C23_Witness ==
    \E f \in Folds :
        /\ pc[f] = "done"
        /\ Len(ValRows(f)) > BATCH_SIZE
        /\ Len(ValRows(f)) % BATCH_SIZE # 0
        /\ Len(epoch_val_id_to_pred[f]) = NUM_EPOCHS

\* The positions (batch, row) of the current train() call that hold example j.
PositionsOf(j) ==
    {bk \in (DOMAIN epoch_batches) \X (1 .. BATCH_SIZE) :
        /\ bk[2] \in DOMAIN epoch_batches[bk[1]]
        /\ epoch_batches[bk[1]][bk[2]].feature = j}

\* C24: when train() has gone through an epoch over train_len examples, it has
\* built ceil(train_len / BATCH_SIZE) batches that are consecutive slices of
\* the shuffled order; every batch but possibly the last holds exactly
\* BATCH_SIZE rows, the last holds between 1 and BATCH_SIZE; every training
\* example is in exactly one batch; and each row's label is the label of the
\* example its features come from (features and labels are shuffled alike).
C24_BatchesPartitionShuffledOrder ==
    tpc = "evaluate" =>
        /\ Len(train_indices_shuffled) = train_len
        /\ Range(train_indices_shuffled) = 0 .. train_len - 1
        /\ Len(epoch_batches) = NumBatches
        /\ \A b \in DOMAIN epoch_batches :
              /\ Len(epoch_batches[b]) \in 1 .. BATCH_SIZE
              /\ b < NumBatches => Len(epoch_batches[b]) = BATCH_SIZE
              /\ \A k \in DOMAIN epoch_batches[b] :
                    /\ epoch_batches[b][k].feature =
                           train_indices_shuffled[(b - 1) * BATCH_SIZE + k]
                    /\ epoch_batches[b][k].label = epoch_batches[b][k].feature
        /\ \A j \in 0 .. train_len - 1 : Cardinality(PositionsOf(j)) = 1

\* The second epoch of a driver has run over more than one batch, the last one
\* short, in an order that is neither the range nor its reverse.
C24_Witness ==
    /\ tpc = "evaluate"
    /\ train_epoch = 1
    /\ train_len > BATCH_SIZE
    /\ train_len % BATCH_SIZE # 0
    /\ train_indices_shuffled \notin {RangeOrder(train_len), ReversedOrder(train_len)}
    /\ Len(epoch_batches[Len(epoch_batches)]) < BATCH_SIZE

\* The number of optimizer steps taken up to and including logged batch j.
SteppedUpTo(j) == Cardinality({i \in 1 .. j : batch_log[i].stepped})

\* C25: with EMA enabled the shadow is registered once, from the parameters as
\* built, before the first training batch, and afterwards receives exactly one
\* update per training batch, made from the parameters as they are after that
\* batch's backward pass and, where the batch steps, after its optimizer step;
\* only a training batch changes the shadow (no evaluation does); with EMA
\* disabled the shadow stays empty.
C25_EmaOncePerBatch ==
    /\ [](USE_EMA =>
            /\ Len(ema_shadow) = 1 + Len(batch_log)
            /\ ema_shadow[1] = <<>>
            /\ \A j \in DOMAIN batch_log :
                  ema_shadow[j + 1] = SubSeq(opt_steps, 1, SteppedUpTo(j)))
    /\ [](~USE_EMA => ema_shadow = <<>>)
    /\ [][ema_shadow' # ema_shadow =>
            /\ tpc = "batch"
            /\ Len(batch_log') = Len(batch_log) + 1
            /\ Len(ema_shadow') = Len(ema_shadow) + 1]_vars

\* A driver with EMA has gone through its epochs and the evaluation after the
\* epoch loop, with updates that followed an optimizer step and updates that
\* did not.
C25_Witness ==
    /\ USE_EMA
    /\ tpc \in {"finished", "raised"}
    /\ param_data = "ema"
    /\ NUM_EPOCHS >= 2
    /\ Len(ema_shadow) = 1 + NUM_EPOCHS * NumBatches
    /\ \E j \in DOMAIN batch_log : ema_shadow[j + 1] = ema_shadow[j]
    /\ \E j \in DOMAIN batch_log : ema_shadow[j + 1] # ema_shadow[j]

\* The driver invocations that exist: started by a pool worker, not yet returned.
Invocations == {f \in Folds : pc[f] \in Running}

\* C26: as long as no driver has failed, a driver that is about to call
\* gpu_id_queue.get() finds at least one GPU id in the queue, so its get() does
\* not block, and at most NUM_GPUS driver invocations exist: the pool of
\* NUM_GPUS workers bounds the concurrency, not the queue.
C26_PoolBoundsConcurrency ==
    ~AnyFailed =>
        /\ \A f \in Folds : pc[f] = "acquire" => gpu_id_queue # <<>>
        /\ Cardinality(Invocations) <= NUM_GPUS

\* More folds than devices: one driver has finished, one is between get() and
\* put(), and a third is about to call get() with one GPU id left in the queue.
C26_Witness ==
    /\ ~AnyFailed
    /\ NUM_FOLDS > NUM_GPUS
    /\ Len(gpu_id_queue) = 1
    /\ \E f, g, h \in Folds :
          pc[f] = "acquire" /\ pc[g] \in Holding /\ pc[h] = "done"

\* The epochs whose evaluation has been recorded, and the score of epoch e.
EpochsScored == 0 .. Len(epoch_aucs) - 1
AucOf(e) == epoch_aucs[e + 1]
MaxAucSeen == CHOOSE a \in Range(epoch_aucs) : \A b \in Range(epoch_aucs) : b <= a
\* Epoch e's score is strictly greater than the score of every earlier epoch.
StrictlyBest(e) == \A d \in 0 .. e - 1 : AucOf(e) > AucOf(d)
\* The save_model calls that wrote the fold's checkpoint.
CheckpointSaves == {j \in DOMAIN save_log : save_log[j].path = "PRETRAINED_MODEL"}
SavedAfter(e) == \E j \in CheckpointSaves : save_log[j].epoch = e
\* The epoch of the checkpoint that is on storage: the last one written.
PersistedEpoch ==
    save_log[CHOOSE j \in CheckpointSaves : \A i \in CheckpointSaves : i <= j].epoch
EarliestBestEpoch ==
    CHOOSE e \in EpochsScored :
        AucOf(e) = MaxAucSeen /\ \A d \in EpochsScored : AucOf(d) = MaxAucSeen => e <= d

\* In multilingual_classifier.main_driver a checkpoint is saved after epoch e
\* exactly if the fold is fold 0, SAVE_MODEL is set and the epoch's score is
\* strictly greater than every earlier epoch's score of the driver.
SavedIffStrictlyBest ==
    \A e \in EpochsScored :
        SavedAfter(e) <=> (fold_id = 0 /\ SAVE_MODEL /\ StrictlyBest(e))

\* The checkpoint on storage comes from the earliest epoch that reached the
\* best score seen so far.
PersistedIsEarliestBest ==
    CheckpointSaves # {} => PersistedEpoch = EarliestBestEpoch

\* C27 as stated: the save rule above; best_auc equals, after each epoch, the
\* maximum score seen so far (and so never decreases); the checkpoint on
\* storage is the earliest best epoch's; folds other than fold 0 never save.
C27_BestAucIsMaxSeen ==
    program = "multilingual" =>
        /\ SavedIffStrictlyBest
        /\ epoch_aucs # <<>> => best_auc = MaxAucSeen
        /\ PersistedIsEarliestBest
        /\ fold_id # 0 => CheckpointSaves = {}

\* C27, amended: the save rule above; best_auc never decreases; in the driver
\* that saves (fold 0 with SAVE_MODEL) best_auc equals after each epoch the
\* maximum score seen so far, and in every other driver best_auc stays at its
\* initial -1 and nothing is saved; the checkpoint on storage is the earliest
\* best epoch's.
C27_BestCheckpointPolicy ==
    /\ [](program = "multilingual" =>
            /\ SavedIffStrictlyBest
            /\ (fold_id = 0 /\ SAVE_MODEL /\ epoch_aucs # <<>>) => best_auc = MaxAucSeen
            /\ ~(fold_id = 0 /\ SAVE_MODEL) => (best_auc = -1 /\ CheckpointSaves = {})
            /\ PersistedIsEarliestBest)
    /\ [][best_auc' >= best_auc]_vars

\* Fold 0 of the multilingual program has finished two or more epochs, the
\* last one tying with the best before it: the checkpoint is the earlier one.
C27_Witness ==
    /\ program = "multilingual" /\ fold_id = 0 /\ SAVE_MODEL
    /\ tpc = "finished"
    /\ Len(epoch_aucs) >= 2
    /\ AucOf(Len(epoch_aucs) - 1) = MaxAucSeen
    /\ ~SavedAfter(Len(epoch_aucs) - 1)
    /\ CheckpointSaves # {}

============================================================================
